---- MODULE Spec2Model ----
(***************************************************************************)
(* Scene memory, context serializer, session relay and navigation          *)
(* controller of the LUMEX-AI browser client                               *)
(* (src/src/lib/genai-live-client.ts, control-tray/ControlTray.tsx).       *)
(*                                                                         *)
(* Conventions.  A JavaScript string is a sequence of text tokens; the     *)
(* empty string is <<>>, and + is \o.  Numbers interpolated into template  *)
(* literals are formatted digit by digit (NumToStr).  An optional value    *)
(* (undefined or v) is a sequence of length at most one: None or Some(v).  *)
(***************************************************************************)
EXTENDS Integers, Sequences, FiniteSets, TLC

VARIABLES
    sceneMemory,      \* GenAILiveClient._sceneMemory
    status,           \* GenAILiveClient._status
    session,          \* GenAILiveClient._session (TRUE: a Session, FALSE: null)
    now,              \* the wall clock read by Date.now()
    navigationState,  \* ControlTray: state committed by the last render
    connected,        \* ControlTray: `connected` seen by the last render
    pending,          \* React state updates requested and not yet rendered
    intervalSet,      \* the 30 s interval of the periodic-query effect is installed
    lumaNav,          \* window.lumaNav has been installed
    call,             \* the handler that ran last, with its arguments
    sent,             \* what the last handler handed to session.sendClientContent
    sendReport,       \* what send() reported to the console in the last handler
    model,            \* GenAILiveClient._model
    config,           \* GenAILiveClient.config
    returned,         \* what the last handler returned (None: nothing, or not yet)
    realtime,         \* what the last handler handed to session.sendRealtimeInput
    events,           \* the transport and server events the last handler emitted
    emitted           \* the sceneupdate payloads the last handler emitted

vars == <<sceneMemory, status, session, now, navigationState, connected,
          pending, intervalSet, lumaNav, call, sent, sendReport, emitted,
          model, config, returned, realtime, events>>

----------------------------------------------------------------------------
(* Bounds of the model *)

MaxHistory == 2

----------------------------------------------------------------------------
(* Optional values and strings *)

None == <<>>
Some(v) == <<v>>
IsSet(o) == o # <<>>
Str(s) == <<s>>
EmptyStr == <<>>

\* JavaScript truthiness of an optional string: undefined and "" are falsy.
TruthyStr(o) == IsSet(o) /\ o[1] # EmptyStr

(* Inputs the model draws from *)

\* The instants of the wall clock that Date.now() can return.
Times == {1, 2}

\* (newPosition, action) arguments of updateUserPosition.
StepInputs == { <<<<0, 2>>, Some(Str("moved right"))>>, <<<<4, 0>>, None>> }
GoalTexts == {EmptyStr, Str("get to the other side of the room")}
GoalPositions == {<<6, 0>>}

\* The objects handed to updateSceneObject (no timestamp: the store stamps them).
Object(name, position, description) ==
    [name |-> Str(name), position |-> position, description |-> description,
     timestamp |-> None]

ObjectInputs ==
    { Object("box", <<3, 0>>, Some(Str("cardboard box"))),
      Object("box", <<-5, 12>>, None),
      Object("chair", <<5, 2>>, Some(EmptyStr)) }

\* Arguments used through the window.lumaNav console interface: addObject
\* takes (name, x, y, description?), updateStep takes a position and an
\* action text.
NavObjectInputs ==
    { Object("box", <<3, 0>>, Some(Str("cardboard box"))),
      Object("chair", <<5, 2>>, None) }
NavStepInputs == { step \in StepInputs : IsSet(step[2]) }

----------------------------------------------------------------------------
(* Number formatting of template literals: `${n}` for an integer n *)

Digit == <<"0", "1", "2", "3", "4", "5", "6", "7", "8", "9">>

RECURSIVE NatToStr(_)
NatToStr(n) ==
    IF n < 10 THEN <<Digit[n + 1]>>
    ELSE NatToStr(n \div 10) \o <<Digit[(n % 10) + 1]>>

NumToStr(n) == IF n < 0 THEN <<"-">> \o NatToStr(0 - n) ELSE NatToStr(n)

----------------------------------------------------------------------------
(* The scene store *)

EmptyScene == [user |-> <<0, 0>>, objects |-> <<>>, goal |-> None,
               goalDescription |-> None, history |-> <<>>]

\* Variant of FindIndex that looks at the last entry only.
FindIndexLastOnly(objects, name) ==
    IF Len(objects) >= 1 /\ objects[Len(objects)].name = name
    THEN Len(objects) ELSE 0

\* Array.prototype.findIndex: the first index whose name matches, 0 if none.
FindIndex(objects, name) ==
    IF \E i \in 1..Len(objects) : objects[i].name = name
    THEN CHOOSE i \in 1..Len(objects) :
           /\ objects[i].name = name
           /\ \A j \in 1..(i - 1) : objects[j].name # name
    ELSE 0

\* Variant of Snapshot that forgets the action argument.
SnapshotWithoutAction(m, action, t) ==
    [timestamp |-> t, user |-> m.user, objects |-> m.objects, action |-> None]

\* The snapshot pushed by updateUserPosition.
Snapshot(m, action, t) ==
    [timestamp |-> t, user |-> m.user, objects |-> m.objects, action |-> action]

\* Variant of UpdateUserPosition that moves the user first and snapshots after.
UpdateUserPositionSnapshotAfter(m, newPosition, action, t) ==
    LET moved == [m EXCEPT !.user = newPosition] IN
    [moved EXCEPT !.history = Append(@, Snapshot(moved, action, t))]

UpdateUserPosition(m, newPosition, action, t) ==
    [m EXCEPT !.history = Append(@, Snapshot(m, action, t)),
              !.user = newPosition]

\* { ...object, timestamp: Date.now() }
Stamped(object, t) ==
    [name |-> object.name, position |-> object.position,
     description |-> object.description, timestamp |-> Some(t)]

\* Variant of UpdateSceneObject that merges into the existing entry: a field
\* the new object leaves undefined keeps its old value.
UpdateSceneObjectMerging(m, object, t) ==
    LET existingIndex == FindIndex(m.objects, object.name) IN
    IF existingIndex >= 1
    THEN [m EXCEPT !.objects[existingIndex] =
            [Stamped(object, t) EXCEPT !.description =
               IF IsSet(object.description) THEN object.description
               ELSE m.objects[existingIndex].description]]
    ELSE [m EXCEPT !.objects = Append(@, Stamped(object, t))]

\* Variant of UpdateSceneObject that overwrites the entry object itself, so
\* that the snapshots holding it change with it.
UpdateSceneObjectInPlace(m, object, t) ==
    LET existingIndex == FindIndex(m.objects, object.name)
        Overwrite(objects) ==
            [i \in 1..Len(objects) |->
               IF objects[i].name = object.name THEN Stamped(object, t)
               ELSE objects[i]]
    IN  IF existingIndex >= 1
        THEN [m EXCEPT !.objects = Overwrite(@),
                       !.history = [k \in 1..Len(@) |->
                                      [@[k] EXCEPT !.objects = Overwrite(@)]]]
        ELSE [m EXCEPT !.objects = Append(@, Stamped(object, t))]

\* Variant of UpdateSceneObject that moves an updated entry to the end.
UpdateSceneObjectMovingLast(m, object, t) ==
    LET others == SelectSeq(m.objects, LAMBDA o : o.name # object.name) IN
    [m EXCEPT !.objects = Append(others, Stamped(object, t))]

UpdateSceneObject(m, object, t) ==
    LET existingIndex == FindIndex(m.objects, object.name) IN
    IF existingIndex >= 1
    THEN [m EXCEPT !.objects[existingIndex] = Stamped(object, t)]
    ELSE [m EXCEPT !.objects = Append(@, Stamped(object, t))]

\* Variant of SetNavigationGoalText that drops the goal position.
SetNavigationGoalTextOnly(m, goal) ==
    [m EXCEPT !.goalDescription = Some(goal), !.goal = None]

SetNavigationGoalText(m, goal) == [m EXCEPT !.goalDescription = Some(goal)]

SetNavigationGoalPosition(m, goal) == [m EXCEPT !.goal = Some(goal)]

\* Variant of ResetScene that clears user, objects and history only.
ResetSceneKeepingGoal(m) ==
    [EmptyScene EXCEPT !.goal = m.goal, !.goalDescription = m.goalDescription]

\* resetScene replaces the whole record m by a fresh one.
ResetScene(m) == EmptyScene

----------------------------------------------------------------------------
(* The context serializer *)

PositionText(p) == NumToStr(p[1]) \o <<", ">> \o NumToStr(p[2])

\* Variant of ObjectLine that subtracts the object from the user.
ObjectLineReversed(obj, user) ==
    LET relativeX == user[1] - obj.position[1]
        relativeY == user[2] - obj.position[2]
    IN  <<"- ">> \o obj.name \o <<" at [">> \o PositionText(obj.position)
        \o <<"] (relative: [">> \o PositionText(<<relativeX, relativeY>>)
        \o <<"])">>
        \o (IF TruthyStr(obj.description)
            THEN <<" - ">> \o obj.description[1] ELSE <<>>)
        \o <<"\n">>

ObjectLine(obj, user) ==
    LET relativeX == obj.position[1] - user[1]
        relativeY == obj.position[2] - user[2]
    IN  <<"- ">> \o obj.name \o <<" at [">> \o PositionText(obj.position)
        \o <<"] (relative: [">> \o PositionText(<<relativeX, relativeY>>)
        \o <<"])">>
        \o (IF TruthyStr(obj.description)
            THEN <<" - ">> \o obj.description[1] ELSE <<>>)
        \o <<"\n">>

\* Variant of ObjectLines that renders the first object only.
ObjectLinesFirstOnly(objects, user) ==
    IF objects = <<>> THEN <<>> ELSE ObjectLine(Head(objects), user)

RECURSIVE ObjectLines(_, _)
ObjectLines(objects, user) ==
    IF objects = <<>> THEN <<>>
    ELSE ObjectLine(Head(objects), user) \o ObjectLines(Tail(objects), user)

\* Variant of GoalLine that prints the line for a goal description only.
GoalLineDescriptionOnly(goal, goalDescription) ==
    IF TruthyStr(goalDescription)
    THEN <<"\n", "Navigation Goal: ">> \o goalDescription[1] \o <<"\n">>
    ELSE <<>>

GoalLine(goal, goalDescription) ==
    IF IsSet(goal) \/ TruthyStr(goalDescription)
    THEN <<"\n", "Navigation Goal: ">>
         \o (IF TruthyStr(goalDescription) THEN goalDescription[1] ELSE <<>>)
         \o (IF IsSet(goal)
             THEN <<" [">> \o PositionText(goal[1]) \o <<"]">> ELSE <<>>)
         \o <<"\n">>
    ELSE <<>>

\* Variant of GetSceneContext that also reports how many steps were logged.
GetSceneContextWithSteps(m) ==
    <<"\n", "--- SCENE MEMORY ---", "\n">>
    \o <<"User Position: [">> \o PositionText(m.user) \o <<"]", "\n">>
    \o <<"Steps: ">> \o NumToStr(Len(m.history)) \o <<"\n">>
    \o (IF Len(m.objects) > 0
        THEN <<"\n", "Detected Objects:", "\n">> \o ObjectLines(m.objects, m.user)
        ELSE <<"No objects detected yet.", "\n">>)
    \o GoalLine(m.goal, m.goalDescription)
    \o <<"--- END SCENE MEMORY ---", "\n">>

GetSceneContext(m) ==
    <<"\n", "--- SCENE MEMORY ---", "\n">>
    \o <<"User Position: [">> \o PositionText(m.user) \o <<"]", "\n">>
    \o (IF Len(m.objects) > 0
        THEN <<"\n", "Detected Objects:", "\n">> \o ObjectLines(m.objects, m.user)
        ELSE <<"No objects detected yet.", "\n">>)
    \o GoalLine(m.goal, m.goalDescription)
    \o <<"--- END SCENE MEMORY ---", "\n">>

----------------------------------------------------------------------------
(* send: what is handed to session.sendClientContent *)

IsTextPart(part) == "text" \in DOMAIN part

WithContext(part, sceneContext) ==
    IF IsTextPart(part) /\ part.text # EmptyStr
    THEN [text |-> sceneContext \o part.text]
    ELSE part

PartsToSend(m, parts, includeSceneContext) ==
    IF includeSceneContext
    THEN LET sceneContext == GetSceneContext(m)
             mapped == [i \in 1..Len(parts) |-> WithContext(parts[i], sceneContext)]
         IN  IF \E i \in 1..Len(mapped) : IsTextPart(mapped[i])
             THEN mapped
             ELSE <<[text |-> sceneContext]>> \o mapped
    ELSE parts

Send(m, sess, parts, turnComplete, includeSceneContext) ==
    IF ~sess THEN <<>>
    ELSE <<[turns |-> PartsToSend(m, parts, includeSceneContext),
            turnComplete |-> turnComplete]>>

\* Variant of SendReport without the try/catch around sendClientContent.
SendReportUncaught(sess, throws) ==
    IF ~sess THEN "No session exists"
    ELSE IF throws THEN "uncaught exception"
    ELSE "called successfully"

\* What send() reports on the console: the early return without a session,
\* the catch block when sendClientContent throws, the success line otherwise.
SendReport(sess, throws) ==
    IF ~sess THEN "No session exists"
    ELSE IF throws THEN "Error in sendClientContent"
    ELSE "called successfully"

AmbientQuery == Str("Talk about the surrounding concisely")
NextStepQuery == Str("I completed that step. What's next?")
FirstStepQuery(goalDescription) ==
    <<"I need to navigate: ">> \o goalDescription
    \o <<". What objects do you see and what should I do first?">>

----------------------------------------------------------------------------
(* Initial state: the client is constructed and ControlTray is mounted *)

NoPending == [active |-> None, connected |-> None]

Init ==
    /\ sceneMemory = EmptyScene
    /\ status = "disconnected"
    /\ session = FALSE
    /\ now = 1
    /\ navigationState = [active |-> FALSE, currentStep |-> 0, steps |-> <<>>]
    /\ connected = FALSE
    /\ pending = NoPending
    /\ intervalSet = FALSE
    /\ lumaNav = FALSE
    /\ call = [op |-> "init", args |-> <<>>]
    /\ sent = <<>>
    /\ sendReport = "none"
    /\ emitted = <<>>
    /\ model = None
    /\ config = None
    /\ returned = None
    /\ realtime = <<>>
    /\ events = <<>>

----------------------------------------------------------------------------
(* Scene store operations called on the client *)

updateUserPosition ==
    /\ Len(sceneMemory.history) < MaxHistory
    /\ \E step \in StepInputs :
         /\ sceneMemory' = UpdateUserPosition(sceneMemory, step[1], step[2], now)
         /\ call' = [op |-> "updateUserPosition", args |-> step]
    /\ sent' = <<>>
    /\ sendReport' = "none"
    /\ realtime' = <<>>
    /\ events' = <<>>
    /\ returned' = None
    /\ UNCHANGED <<model, config>>
    /\ emitted' = <<sceneMemory'>>
    /\ UNCHANGED <<status, session, now, navigationState, connected,
                   pending, intervalSet, lumaNav>>

updateSceneObject ==
    /\ \E object \in ObjectInputs :
         /\ sceneMemory' = UpdateSceneObject(sceneMemory, object, now)
         /\ call' = [op |-> "updateSceneObject", args |-> <<object>>]
    /\ sent' = <<>>
    /\ sendReport' = "none"
    /\ realtime' = <<>>
    /\ events' = <<>>
    /\ returned' = None
    /\ UNCHANGED <<model, config>>
    /\ emitted' = <<sceneMemory'>>
    /\ UNCHANGED <<status, session, now, navigationState, connected,
                   pending, intervalSet, lumaNav>>

setNavigationGoal ==
    /\ \/ \E goal \in GoalTexts :
            /\ sceneMemory' = SetNavigationGoalText(sceneMemory, goal)
            /\ call' = [op |-> "setNavigationGoal", args |-> <<"string", goal>>]
       \/ \E goal \in GoalPositions :
            /\ sceneMemory' = SetNavigationGoalPosition(sceneMemory, goal)
            /\ call' = [op |-> "setNavigationGoal", args |-> <<"Position", goal>>]
    /\ sent' = <<>>
    /\ sendReport' = "none"
    /\ realtime' = <<>>
    /\ events' = <<>>
    /\ returned' = None
    /\ UNCHANGED <<model, config>>
    /\ emitted' = <<sceneMemory'>>
    /\ UNCHANGED <<status, session, now, navigationState, connected,
                   pending, intervalSet, lumaNav>>

resetScene ==
    /\ sceneMemory' = ResetScene(sceneMemory)
    /\ call' = [op |-> "resetScene", args |-> <<>>]
    /\ sent' = <<>>
    /\ sendReport' = "none"
    /\ realtime' = <<>>
    /\ events' = <<>>
    /\ returned' = None
    /\ UNCHANGED <<model, config>>
    /\ emitted' = <<sceneMemory'>>
    /\ UNCHANGED <<status, session, now, navigationState, connected,
                   pending, intervalSet, lumaNav>>

\* Time passes between two reads of Date.now().
clockAdvance ==
    /\ now + 1 \in Times
    /\ now' = now + 1
    /\ call' = [op |-> "clockAdvance", args |-> <<>>]
    /\ sent' = <<>>
    /\ sendReport' = "none"
    /\ realtime' = <<>>
    /\ events' = <<>>
    /\ returned' = None
    /\ UNCHANGED <<model, config>>
    /\ emitted' = <<>>
    /\ UNCHANGED <<sceneMemory, status, session, navigationState, connected,
                   pending, intervalSet, lumaNav>>

NextStore ==
    \/ clockAdvance
    \/ updateUserPosition
    \/ updateSceneObject
    \/ setNavigationGoal
    \/ resetScene

SpecStore == Init /\ [][NextStore]_vars

----------------------------------------------------------------------------
(* Connection lifecycle of the client *)

\* The (model, config) arguments of connect.
ConnectInputs == { <<"models/gemini-live", "audio">> }

\* Variant of Connect that starts an attempt whatever the status is.
ConnectAlways(inputs) ==
    /\ \E input \in inputs :
         /\ status' = "connecting"
         /\ model' = Some(input[1])
         /\ config' = Some(input[2])
         /\ returned' = None
         /\ call' = [op |-> "connect", args |-> <<status, input[1], input[2]>>]
    /\ sent' = <<>>
    /\ sendReport' = "none"
    /\ realtime' = <<>>
    /\ events' = <<>>
    /\ emitted' = <<>>
    /\ UNCHANGED <<sceneMemory, session, now, navigationState, connected,
                   pending, intervalSet, lumaNav>>

\* connect(model, config): returns false while connected or connecting,
\* otherwise records model and config and the attempt is in flight until the
\* awaited client.live.connect settles.
Connect(inputs) ==
    /\ \E input \in inputs :
         /\ IF status \in {"connected", "connecting"}
            THEN /\ returned' = Some(FALSE)
                 /\ UNCHANGED <<status, model, config>>
            ELSE /\ status' = "connecting"
                 /\ config' = Some(input[2])
                 /\ model' = Some(input[1])
                 /\ returned' = None
         /\ call' = [op |-> "connect", args |-> <<status, input[1], input[2]>>]
    /\ sent' = <<>>
    /\ sendReport' = "none"
    /\ realtime' = <<>>
    /\ events' = <<>>
    /\ emitted' = <<>>
    /\ UNCHANGED <<sceneMemory, session, now, navigationState, connected,
                   pending, intervalSet, lumaNav>>

connect == Connect(ConnectInputs)

\* The awaited client.live.connect resolves (ok) or throws (~ok), and
\* connect returns ok.  On success the context provider marks the UI
\* connected.
connectSettled ==
    /\ status = "connecting"
    /\ \E ok \in BOOLEAN :
         /\ session' = IF ok THEN TRUE ELSE session
         /\ status' = IF ok THEN "connected" ELSE "disconnected"
         /\ pending' = IF ok THEN [pending EXCEPT !.connected = Some(TRUE)]
                       ELSE pending
         /\ returned' = Some(ok)
         /\ call' = [op |-> "connectSettled", args |-> <<ok>>]
    /\ sent' = <<>>
    /\ sendReport' = "none"
    /\ realtime' = <<>>
    /\ events' = <<>>
    /\ emitted' = <<>>
    /\ UNCHANGED <<sceneMemory, now, navigationState, connected,
                   intervalSet, lumaNav, model, config>>

\* What disconnect() does to the scene memory.
DisconnectScene(m) == m

\* disconnect(): returns false when there is no session, otherwise closes it.
\* The context provider then marks the UI disconnected.
disconnect ==
    /\ IF ~session
       THEN UNCHANGED <<session, status, pending, sceneMemory>>
       ELSE /\ session' = FALSE
            /\ status' = "disconnected"
            /\ pending' = [pending EXCEPT !.connected = Some(FALSE)]
            /\ sceneMemory' = DisconnectScene(sceneMemory)
    /\ call' = [op |-> "disconnect", args |-> <<session>>]
    /\ sent' = <<>>
    /\ sendReport' = "none"
    /\ realtime' = <<>>
    /\ events' = <<>>
    /\ returned' = Some(session)
    /\ UNCHANGED <<model, config>>
    /\ emitted' = <<>>
    /\ UNCHANGED <<now, navigationState, connected, intervalSet, lumaNav>>

----------------------------------------------------------------------------
(* Navigation controller (window.lumaNav) *)

\* Variant of startNavigation that sends the query before it sets the goal.
startNavigationSendingFirst ==
    /\ lumaNav
    /\ \E goalDescription \in GoalTexts :
         /\ sceneMemory' = SetNavigationGoalText(sceneMemory, goalDescription)
         /\ pending' = [pending EXCEPT !.active = Some(TRUE)]
         /\ sent' = Send(sceneMemory, session,
                         <<[text |-> FirstStepQuery(goalDescription)]>>, TRUE, TRUE)
         /\ \E throws \in BOOLEAN : sendReport' = SendReport(session, throws)
         /\ realtime' = <<>>
         /\ events' = <<>>
         /\ returned' = None
         /\ UNCHANGED <<model, config>>
         /\ call' = [op |-> "startNavigation", args |-> <<goalDescription>>]
    /\ emitted' = <<sceneMemory'>>
    /\ UNCHANGED <<status, session, now, navigationState, connected,
                   intervalSet, lumaNav>>

\* Variant of startNavigation that sets the goal and activates navigation
\* only when the query could be handed to a session.
startNavigationWhenSent ==
    /\ lumaNav
    /\ \E goalDescription \in GoalTexts :
         /\ sceneMemory' = IF session
                           THEN SetNavigationGoalText(sceneMemory, goalDescription)
                           ELSE sceneMemory
         /\ pending' = IF session THEN [pending EXCEPT !.active = Some(TRUE)]
                       ELSE pending
         /\ sent' = Send(sceneMemory', session,
                         <<[text |-> FirstStepQuery(goalDescription)]>>, TRUE, TRUE)
         /\ \E throws \in BOOLEAN : sendReport' = SendReport(session, throws)
         /\ realtime' = <<>>
         /\ events' = <<>>
         /\ returned' = None
         /\ UNCHANGED <<model, config>>
         /\ call' = [op |-> "startNavigation", args |-> <<goalDescription>>]
    /\ emitted' = <<sceneMemory'>>
    /\ UNCHANGED <<status, session, now, navigationState, connected,
                   intervalSet, lumaNav>>

startNavigation ==
    /\ lumaNav
    /\ \E goalDescription \in GoalTexts :
         /\ sceneMemory' = SetNavigationGoalText(sceneMemory, goalDescription)
         /\ pending' = [pending EXCEPT !.active = Some(TRUE)]
         /\ sent' = Send(sceneMemory', session,
                         <<[text |-> FirstStepQuery(goalDescription)]>>, TRUE, TRUE)
         /\ \E throws \in BOOLEAN : sendReport' = SendReport(session, throws)
         /\ realtime' = <<>>
         /\ events' = <<>>
         /\ returned' = None
         /\ UNCHANGED <<model, config>>
         /\ call' = [op |-> "startNavigation", args |-> <<goalDescription>>]
    /\ emitted' = <<sceneMemory'>>
    /\ UNCHANGED <<status, session, now, navigationState, connected,
                   intervalSet, lumaNav>>

\* Variant of NavigationStep that returns at once unless navigation is active.
NavigationStepWhenActive(steps, maxHistory) ==
    /\ lumaNav
    /\ Len(sceneMemory.history) < maxHistory
    /\ \E step \in steps :
         /\ call' = [op |-> "updateNavigationStep", args |-> step]
         /\ IF navigationState.active
            THEN /\ sceneMemory' =
                      UpdateUserPosition(sceneMemory, step[1], step[2], now)
                 /\ sent' = Send(sceneMemory', session,
                                 <<[text |-> NextStepQuery]>>, TRUE, TRUE)
                 /\ \E throws \in BOOLEAN : sendReport' = SendReport(session, throws)
                 /\ realtime' = <<>>
                 /\ events' = <<>>
                 /\ returned' = None
                 /\ UNCHANGED <<model, config>>
                 /\ emitted' = <<sceneMemory'>>
            ELSE /\ sceneMemory' = sceneMemory
                 /\ sent' = <<>>
                 /\ sendReport' = "none"
                 /\ realtime' = <<>>
                 /\ events' = <<>>
                 /\ returned' = None
                 /\ UNCHANGED <<model, config>>
                 /\ emitted' = <<>>
    /\ UNCHANGED <<status, session, now, navigationState, connected,
                   pending, intervalSet, lumaNav>>

\* Variant of NavigationStep that sends the query before it updates the position.
NavigationStepSendingFirst(steps, maxHistory) ==
    /\ lumaNav
    /\ Len(sceneMemory.history) < maxHistory
    /\ \E step \in steps :
         /\ sceneMemory' = UpdateUserPosition(sceneMemory, step[1], step[2], now)
         /\ call' = [op |-> "updateNavigationStep", args |-> step]
    /\ sent' = Send(sceneMemory, session, <<[text |-> NextStepQuery]>>, TRUE, TRUE)
    /\ \E throws \in BOOLEAN : sendReport' = SendReport(session, throws)
    /\ realtime' = <<>>
    /\ events' = <<>>
    /\ returned' = None
    /\ UNCHANGED <<model, config>>
    /\ emitted' = <<sceneMemory'>>
    /\ UNCHANGED <<status, session, now, navigationState, connected,
                   pending, intervalSet, lumaNav>>

\* updateNavigationStep(newPosition, action), for the steps and the history
\* cap of a specification.
NavigationStep(steps, maxHistory) ==
    /\ lumaNav
    /\ Len(sceneMemory.history) < maxHistory
    /\ \E step \in steps :
         /\ sceneMemory' = UpdateUserPosition(sceneMemory, step[1], step[2], now)
         /\ call' = [op |-> "updateNavigationStep", args |-> step]
    /\ sent' = Send(sceneMemory', session, <<[text |-> NextStepQuery]>>, TRUE, TRUE)
    /\ \E throws \in BOOLEAN : sendReport' = SendReport(session, throws)
    /\ realtime' = <<>>
    /\ events' = <<>>
    /\ returned' = None
    /\ UNCHANGED <<model, config>>
    /\ emitted' = <<sceneMemory'>>
    /\ UNCHANGED <<status, session, now, navigationState, connected,
                   pending, intervalSet, lumaNav>>

updateNavigationStep == NavigationStep(NavStepInputs, MaxHistory)

\* Variant of CompleteScene that clears the scene memory.
CompleteSceneClearing(m) == EmptyScene

\* What completeNavigation() does to the scene memory.
CompleteScene(m) == m

completeNavigation ==
    /\ lumaNav
    /\ pending' = [pending EXCEPT !.active = Some(FALSE)]
    /\ sceneMemory' = CompleteScene(sceneMemory)
    /\ call' = [op |-> "completeNavigation", args |-> <<>>]
    /\ sent' = <<>>
    /\ sendReport' = "none"
    /\ realtime' = <<>>
    /\ events' = <<>>
    /\ returned' = None
    /\ UNCHANGED <<model, config>>
    /\ emitted' = <<>>
    /\ UNCHANGED <<status, session, now, navigationState,
                   connected, intervalSet, lumaNav>>

\* Variant of AddObject that emits sceneupdate before it changes the store.
AddObjectEmittingFirst(objects) ==
    /\ lumaNav
    /\ \E object \in objects :
         /\ sceneMemory' = UpdateSceneObject(sceneMemory, object, now)
         /\ call' = [op |-> "addObject", args |-> <<object>>]
    /\ sent' = <<>>
    /\ sendReport' = "none"
    /\ realtime' = <<>>
    /\ events' = <<>>
    /\ returned' = None
    /\ UNCHANGED <<model, config>>
    /\ emitted' = <<sceneMemory>>
    /\ UNCHANGED <<status, session, now, navigationState, connected,
                   pending, intervalSet, lumaNav>>

\* lumaNav.addObject(name, x, y, description)
AddObject(objects) ==
    /\ lumaNav
    /\ \E object \in objects :
         /\ sceneMemory' = UpdateSceneObject(sceneMemory, object, now)
         /\ call' = [op |-> "addObject", args |-> <<object>>]
    /\ sent' = <<>>
    /\ sendReport' = "none"
    /\ realtime' = <<>>
    /\ events' = <<>>
    /\ returned' = None
    /\ UNCHANGED <<model, config>>
    /\ emitted' = <<sceneMemory'>>
    /\ UNCHANGED <<status, session, now, navigationState, connected,
                   pending, intervalSet, lumaNav>>

addObject == AddObject(NavObjectInputs)

\* lumaNav.resetScene()
lumaNavResetScene ==
    /\ lumaNav
    /\ sceneMemory' = ResetScene(sceneMemory)
    /\ call' = [op |-> "lumaNav.resetScene", args |-> <<>>]
    /\ sent' = <<>>
    /\ sendReport' = "none"
    /\ realtime' = <<>>
    /\ events' = <<>>
    /\ returned' = None
    /\ UNCHANGED <<model, config>>
    /\ emitted' = <<sceneMemory'>>
    /\ UNCHANGED <<status, session, now, navigationState, connected,
                   pending, intervalSet, lumaNav>>

----------------------------------------------------------------------------
(* React: render with the pending updates, then run the effects whose       *)
(* dependencies changed                                                     *)

\* Variant of PeriodicQueryEffect with the test on navigation inverted.
PeriodicQueryEffectWhenActive(isConnected, active) == isConnected /\ active

\* The periodic-query effect: its cleanup clears the interval, its body
\* installs one when connected and navigation is not active.
PeriodicQueryEffect(isConnected, active) == isConnected /\ ~active

render ==
    /\ pending # NoPending
    /\ LET active == IF IsSet(pending.active) THEN pending.active[1]
                     ELSE navigationState.active
           isConnected == IF IsSet(pending.connected) THEN pending.connected[1]
                          ELSE connected
       IN  /\ navigationState' = [navigationState EXCEPT !.active = active]
           /\ connected' = isConnected
           /\ intervalSet' =
                IF active # navigationState.active \/ isConnected # connected
                THEN PeriodicQueryEffect(isConnected, active)
                ELSE intervalSet
           /\ lumaNav' = (lumaNav \/ (isConnected /\ ~connected))
    /\ pending' = NoPending
    /\ call' = [op |-> "render", args |-> <<>>]
    /\ sent' = <<>>
    /\ sendReport' = "none"
    /\ realtime' = <<>>
    /\ events' = <<>>
    /\ returned' = None
    /\ UNCHANGED <<model, config>>
    /\ emitted' = <<>>
    /\ UNCHANGED <<sceneMemory, status, session, now>>

\* The interval callback of the periodic-query effect.
intervalTick ==
    /\ intervalSet
    /\ sent' = Send(sceneMemory, session, <<[text |-> AmbientQuery]>>, TRUE, FALSE)
    /\ \E throws \in BOOLEAN : sendReport' = SendReport(session, throws)
    /\ realtime' = <<>>
    /\ events' = <<>>
    /\ returned' = None
    /\ UNCHANGED <<model, config>>
    /\ call' = [op |-> "intervalTick", args |-> <<>>]
    /\ emitted' = <<>>
    /\ UNCHANGED <<sceneMemory, status, session, now, navigationState,
                   connected, pending, intervalSet, lumaNav>>

Next ==
    \/ connect
    \/ connectSettled
    \/ disconnect
    \/ render
    \/ intervalTick
    \/ startNavigation
    \/ updateNavigationStep
    \/ completeNavigation
    \/ addObject
    \/ lumaNavResetScene
    \/ setNavigationGoal

Spec == Init /\ [][Next]_vars

\* The connection, the navigation state and the interval, with React
\* rendering every queued update and the interval timer firing again and
\* again while it is installed.
NextLive ==
    \/ connect
    \/ connectSettled
    \/ disconnect
    \/ render
    \/ intervalTick
    \/ startNavigation
    \/ completeNavigation

SpecLive ==
    /\ Init
    /\ [][NextLive]_vars
    /\ WF_vars(render)
    /\ WF_vars(intervalTick)

----------------------------------------------------------------------------
(* The worked example of README.md ("Relative Position Updates"): a box at  *)
(* [3, 0] and the user walking around it in three steps                     *)

ScenarioLength == 3

ScenarioBox == Object("box", <<3, 0>>, Some(Str("cardboard box")))

ScenarioSteps ==
    { <<<<0, 2>>, Some(Str("moved right"))>>,
      <<<<4, 2>>, Some(Str("moved forward"))>>,
      <<<<4, 0>>, Some(Str("moved left"))>> }

scenarioAddObject == AddObject({ScenarioBox})

scenarioUpdateStep == NavigationStep(ScenarioSteps, ScenarioLength)

NextScenario ==
    \/ connect
    \/ connectSettled
    \/ disconnect
    \/ render
    \/ scenarioAddObject
    \/ scenarioUpdateStep

SpecScenario == Init /\ [][NextScenario]_vars

----------------------------------------------------------------------------
(* The client used directly: send with every shape of parts                 *)

TextPart(text) == [text |-> text]
ImagePart == [inlineData |-> [mimeType |-> Str("image/jpeg"), data |-> Str("AAAA")]]

\* The `parts` arguments of send: one text part, several text parts, a text
\* part with empty text, only a non-text part, a mix, and the empty list.
PartsInputs ==
    { <<TextPart(Str("hello"))>>,
      <<TextPart(Str("hello")), TextPart(Str("again"))>>,
      <<TextPart(EmptyStr)>>,
      <<ImagePart>>,
      <<ImagePart, TextPart(Str("hello"))>>,
      <<>> }

\* send(parts, turnComplete, includeSceneContext)
send ==
    /\ \E parts \in PartsInputs, turnComplete \in BOOLEAN,
          includeSceneContext \in BOOLEAN :
         /\ sent' = Send(sceneMemory, session, parts, turnComplete,
                         includeSceneContext)
         /\ call' = [op |-> "send",
                     args |-> <<parts, turnComplete, includeSceneContext>>]
    /\ \E throws \in BOOLEAN : sendReport' = SendReport(session, throws)
    /\ realtime' = <<>>
    /\ events' = <<>>
    /\ returned' = None
    /\ UNCHANGED <<model, config>>
    /\ emitted' = <<>>
    /\ UNCHANGED <<sceneMemory, status, session, now, navigationState,
                   connected, pending, intervalSet, lumaNav>>

\* mimeType.includes(word), for a mime type written as its tokens.
Includes(mimeType, word) == \E i \in 1..Len(mimeType) : mimeType[i] = word

Chunk(mimeType, data) == [mimeType |-> mimeType, data |-> Str(data)]
AudioChunk(data) == Chunk(<<"audio", "/pcm;rate=16000">>, data)
ImageChunk(data) == Chunk(<<"image", "/jpeg">>, data)

\* The `chunks` arguments of sendRealtimeInput.
ChunkInputs ==
    { <<>>,
      <<AudioChunk("a1")>>,
      <<ImageChunk("i1")>>,
      <<AudioChunk("a1"), AudioChunk("a2"), ImageChunk("i1")>>,
      <<AudioChunk("a1"), ImageChunk("i1"), AudioChunk("a2")>> }

\* The loop of sendRealtimeInput: each chunk is handed to the session, and
\* the loop breaks once an audio and an image chunk have been seen.
RECURSIVE ForwardChunks(_, _, _)
ForwardChunks(chunks, hasAudio, hasVideo) ==
    IF chunks = <<>> THEN <<>>
    ELSE LET ch == Head(chunks)
             audio == hasAudio \/ Includes(ch.mimeType, "audio")
             video == hasVideo \/ Includes(ch.mimeType, "image")
         IN  <<[media |-> ch]>>
             \o (IF audio /\ video THEN <<>>
                 ELSE ForwardChunks(Tail(chunks), audio, video))

\* sendRealtimeInput(chunks)
sendRealtimeInput ==
    /\ \E chunks \in ChunkInputs :
         /\ realtime' = IF status # "connected" THEN <<>>
                        ELSE ForwardChunks(chunks, FALSE, FALSE)
         /\ call' = [op |-> "sendRealtimeInput", args |-> <<chunks>>]
    /\ sent' = <<>>
    /\ sendReport' = "none"
    /\ events' = <<>>
    /\ returned' = None
    /\ emitted' = <<>>
    /\ UNCHANGED <<sceneMemory, status, session, now, navigationState,
                   connected, pending, intervalSet, lumaNav, model, config>>

\* Parts of a model turn: audio with data, audio without data, text, image.
AudioPart(data) ==
    [inlineData |-> [mimeType |-> <<"audio/pcm", ";rate=24000">>, data |-> data]]

\* The inbound messages: several kinds at once, an interrupted content, a
\* turn with mixed parts, a turn of audio only, a bare turnComplete and a
\* message of no known kind.
MessageInputs ==
    { [setupComplete |-> Str("setup"), toolCall |-> Str("call-1")],
      [toolCall |-> Str("call-1"), toolCallCancellation |-> Str("cancel-1"),
       serverContent |-> [turnComplete |-> TRUE]],
      [toolCallCancellation |-> Str("cancel-1"),
       serverContent |-> [turnComplete |-> TRUE]],
      [serverContent |-> [interrupted |-> TRUE, turnComplete |-> TRUE,
                          modelTurn |-> <<TextPart(Str("hi"))>>]],
      [serverContent |->
         [turnComplete |-> TRUE,
          modelTurn |-> <<AudioPart(Str("pcm-1")), TextPart(Str("hi")),
                          AudioPart(EmptyStr), AudioPart(Str("pcm-2")),
                          ImagePart>>]],
      [serverContent |->
         [modelTurn |-> <<AudioPart(Str("pcm-1")), AudioPart(EmptyStr)>>]],
      [serverContent |-> [turnComplete |-> TRUE]],
      [usageMetadata |-> Str("tokens")] }

Has(record, key) == key \in DOMAIN record

Event(name, payload) == [event |-> name, payload |-> payload]

\* p.inlineData && p.inlineData.mimeType?.startsWith("audio/pcm")
IsAudioPart(part) ==
    Has(part, "inlineData") /\ part.inlineData.mimeType[1] = "audio/pcm"

\* base64s.forEach: one audio event per audio part whose data is not empty.
RECURSIVE AudioEvents(_)
AudioEvents(audioParts) ==
    IF audioParts = <<>> THEN <<>>
    ELSE (IF Head(audioParts).inlineData.data # EmptyStr
          THEN <<Event("audio", Head(audioParts).inlineData.data)>>
          ELSE <<>>)
         \o AudioEvents(Tail(audioParts))

\* Variant of ModelTurnEvents that leaves the audio parts in the content.
ModelTurnEventsKeepingAudio(parts) ==
    AudioEvents(SelectSeq(parts, IsAudioPart))
    \o (IF parts = <<>> THEN <<>> ELSE <<Event("content", parts)>>)

\* The modelTurn branch of onmessage.
ModelTurnEvents(parts) ==
    LET audioParts == SelectSeq(parts, IsAudioPart)
        otherParts == SelectSeq(parts, LAMBDA p : ~IsAudioPart(p))
    IN  AudioEvents(audioParts)
        \o (IF otherParts = <<>> THEN <<>>
            ELSE <<Event("content", otherParts)>>)

\* What onmessage emits for a message.
Dispatch(message) ==
    IF Has(message, "setupComplete") THEN <<Event("setupcomplete", <<>>)>>
    ELSE IF Has(message, "toolCall")
    THEN <<Event("toolcall", message.toolCall)>>
    ELSE IF Has(message, "toolCallCancellation")
    THEN <<Event("toolcallcancellation", message.toolCallCancellation)>>
    ELSE IF Has(message, "serverContent")
    THEN LET serverContent == message.serverContent IN
         IF Has(serverContent, "interrupted")
         THEN <<Event("interrupted", <<>>)>>
         ELSE (IF Has(serverContent, "turnComplete")
               THEN <<Event("turncomplete", <<>>)>> ELSE <<>>)
              \o (IF Has(serverContent, "modelTurn")
                  THEN ModelTurnEvents(serverContent.modelTurn)
                  ELSE <<>>)
    ELSE <<>>

\* A callback of the transport can run once a connect has registered it.
CallbacksRegistered == IsSet(model)

onmessage ==
    /\ CallbacksRegistered
    /\ \E message \in MessageInputs :
         /\ events' = Dispatch(message)
         /\ call' = [op |-> "onmessage", args |-> <<message>>]
    /\ sent' = <<>>
    /\ sendReport' = "none"
    /\ realtime' = <<>>
    /\ returned' = None
    /\ emitted' = <<>>
    /\ UNCHANGED <<sceneMemory, status, session, now, navigationState,
                   connected, pending, intervalSet, lumaNav, model, config>>

\* Variant of TransportCallback for a callback that marks the client
\* disconnected when the server closes the connection.
TransportCallbackClosing(op, event) ==
    /\ CallbacksRegistered
    /\ events' = <<Event(event, <<>>)>>
    /\ status' = "disconnected"
    /\ call' = [op |-> op, args |-> <<>>]
    /\ sent' = <<>>
    /\ sendReport' = "none"
    /\ realtime' = <<>>
    /\ returned' = None
    /\ emitted' = <<>>
    /\ UNCHANGED <<sceneMemory, session, now, navigationState,
                   connected, pending, intervalSet, lumaNav, model, config>>

\* onopen / onerror / onclose: log and re-emit the transport's event.
TransportCallback(op, event) ==
    /\ CallbacksRegistered
    /\ events' = <<Event(event, <<>>)>>
    /\ call' = [op |-> op, args |-> <<>>]
    /\ sent' = <<>>
    /\ sendReport' = "none"
    /\ realtime' = <<>>
    /\ returned' = None
    /\ emitted' = <<>>
    /\ UNCHANGED <<sceneMemory, status, session, now, navigationState,
                   connected, pending, intervalSet, lumaNav, model, config>>

onopen == TransportCallback("onopen", "open")
onerror == TransportCallback("onerror", "error")
onclose == TransportCallback("onclose", "close")

\* connect called with either of two models.
ClientConnectInputs ==
    ConnectInputs \cup { <<"models/gemini-live-native", "text">> }

clientConnect == Connect(ClientConnectInputs)

NextClient ==
    \/ clientConnect
    \/ onopen
    \/ onerror
    \/ onclose
    \/ onmessage
    \/ sendRealtimeInput
    \/ connectSettled
    \/ disconnect
    \/ updateSceneObject
    \/ setNavigationGoal
    \/ resetScene
    \/ send

SpecClient == Init /\ [][NextClient]_vars

----------------------------------------------------------------------------
(* Properties of the scene store *)

Last(seq) == seq[Len(seq)]
Range(seq) == { seq[i] : i \in 1..Len(seq) }
HasName(objects, name) == \E i \in 1..Len(objects) : objects[i].name = name
SameObject(stored, object) ==
    /\ stored.name = object.name
    /\ stored.position = object.position
    /\ stored.description = object.description

\* C1: every updateUserPosition call adds exactly one history entry, whose
\* user is the store's user position before the call; no other operation
\* adds entries and resetScene empties the history, so that N calls after a
\* reset leave N entries, the i-th holding the position before the i-th call.
C1_HistoryLogsPriorUser ==
    [][ /\ (call'.op = "updateUserPosition") =>
            /\ Len(sceneMemory'.history) = Len(sceneMemory.history) + 1
            /\ Last(sceneMemory'.history).user = sceneMemory.user
            /\ \A i \in 1..Len(sceneMemory.history) :
                 sceneMemory'.history[i].user = sceneMemory.history[i].user
        /\ (call'.op = "resetScene") => Len(sceneMemory'.history) = 0
        /\ (call'.op \notin {"updateUserPosition", "resetScene"}) =>
             Len(sceneMemory'.history) = Len(sceneMemory.history) ]_vars

\* Two calls after a reset: two entries, the first holding the origin, the
\* second the position given to the first call, which differs from the
\* position given to the second.
C1_Witness ==
    /\ call.op = "updateUserPosition"
    /\ Len(sceneMemory.history) = 2
    /\ sceneMemory.history[1].user = <<0, 0>>
    /\ sceneMemory.history[2].user # <<0, 0>>
    /\ sceneMemory.history[2].user # sceneMemory.user

\* C2: the snapshot appended by updateUserPosition(newPosition, action)
\* holds the objects and the user of the store as they were when the call
\* was made and the call's action argument, and after the call the user is
\* newPosition and the objects are unchanged.
C2_SnapshotBeforeChange ==
    [][ (call'.op = "updateUserPosition") =>
          /\ Last(sceneMemory'.history).objects = sceneMemory.objects
          /\ Last(sceneMemory'.history).action = call'.args[2]
          /\ Last(sceneMemory'.history).user = sceneMemory.user
          /\ sceneMemory'.user = call'.args[1]
          /\ sceneMemory'.objects = sceneMemory.objects ]_vars

\* A call with an action text, made with objects in the store, that moved
\* the user.
C2_Witness ==
    /\ call.op = "updateUserPosition"
    /\ IsSet(call.args[2])
    /\ Last(sceneMemory.history).action = call.args[2]
    /\ Len(Last(sceneMemory.history).objects) = 2
    /\ Last(sceneMemory.history).user # sceneMemory.user

\* C3: updateSceneObject with a name already present puts the new object's
\* position and description (an absent description included) in that
\* entry's place and leaves every other entry and the length alone; with a
\* new name it appends the object and the length grows by exactly one.
C3_UpsertReplacesOrAppends ==
    [][ (call'.op = "updateSceneObject") =>
          LET object == call'.args[1]
              old == sceneMemory.objects
              new == sceneMemory'.objects
          IN  IF HasName(old, object.name)
              THEN /\ Len(new) = Len(old)
                   /\ \A i \in 1..Len(old) :
                        IF old[i].name = object.name
                        THEN SameObject(new[i], object)
                        ELSE new[i] = old[i]
              ELSE /\ Len(new) = Len(old) + 1
                   /\ SameObject(Last(new), object)
                   /\ \A i \in 1..Len(old) : new[i] = old[i] ]_vars

\* The box, recorded with a description when the last snapshot was taken,
\* has just been updated with an object that has no description, next to
\* another object.
C3_Witness ==
    /\ call.op = "updateSceneObject"
    /\ call.args[1].name = Str("box")
    /\ ~IsSet(call.args[1].description)
    /\ Len(sceneMemory.history) >= 1
    /\ Len(sceneMemory.objects) = 2
    /\ Last(sceneMemory.history).objects = 
         <<[sceneMemory.objects[1] EXCEPT !.position = <<3, 0>>,
                                          !.description = Some(Str("cardboard box")),
                                          !.timestamp = Some(1)],
           sceneMemory.objects[2]>>
    /\ sceneMemory.objects[1].name = Str("box")
    /\ sceneMemory.objects[1].timestamp = Some(2)


\* C4: the store never holds two entries with the same name.
C4_NamesUnique ==
    \A i, j \in 1..Len(sceneMemory.objects) :
        i # j => sceneMemory.objects[i].name # sceneMemory.objects[j].name

\* addObject was just called with the name of the first of two entries: that
\* name was inserted, another was appended, and the first was then given again.
C4_Witness ==
    /\ call.op = "addObject"
    /\ Len(sceneMemory.objects) = 2
    /\ sceneMemory.objects[1].name = call.args[1].name
    /\ Len(sceneMemory.history) >= 1
    /\ IsSet(sceneMemory.goalDescription)
    /\ IsSet(sceneMemory.goal)

\* C5: resetScene leaves user = [0, 0], no objects, an empty history, no
\* goal position and no goal description, whatever the store held.
C5_ResetYieldsEmptyScene ==
    [][ (call'.op = "resetScene") =>
          /\ sceneMemory'.user = <<0, 0>>
          /\ sceneMemory'.objects = <<>>
          /\ sceneMemory'.history = <<>>
          /\ ~IsSet(sceneMemory'.goal)
          /\ ~IsSet(sceneMemory'.goalDescription) ]_vars

\* A reset that followed other calls (the clock has moved on since Init).
C5_Witness ==
    /\ call.op = "resetScene"
    /\ now = 2
    /\ sceneMemory = EmptyScene

----------------------------------------------------------------------------
(* Reading a rendered context back *)

DigitValue(token) == CHOOSE d \in 0..9 : Digit[d + 1] = token

RECURSIVE ParseNat(_)
ParseNat(tokens) ==
    IF Len(tokens) = 1 THEN DigitValue(tokens[1])
    ELSE 10 * ParseNat(SubSeq(tokens, 1, Len(tokens) - 1))
         + DigitValue(tokens[Len(tokens)])

ParseNum(tokens) ==
    IF tokens[1] = "-" THEN 0 - ParseNat(Tail(tokens)) ELSE ParseNat(tokens)

\* The first index at or after `from` that holds the token, 0 if there is none.
IndexFrom(text, token, from) ==
    IF \E i \in from..Len(text) : text[i] = token
    THEN CHOOSE i \in from..Len(text) :
           /\ text[i] = token
           /\ \A j \in from..(i - 1) : text[j] # token
    ELSE 0

RECURSIVE SplitLines(_)
SplitLines(text) ==
    IF text = <<>> THEN <<>>
    ELSE LET k == IndexFrom(text, "\n", 1) IN
         IF k = 0 THEN <<text>>
         ELSE <<SubSeq(text, 1, k - 1)>> \o SplitLines(SubSeq(text, k + 1, Len(text)))

IsObjectLine(line) == line # <<>> /\ line[1] = "- "
ObjectLinesOf(text) == SelectSeq(SplitLines(text), IsObjectLine)

NameOf(line) == SubSeq(line, 2, IndexFrom(line, " at [", 1) - 1)

AbsoluteOf(line) ==
    LET a == IndexFrom(line, " at [", 1)
        c == IndexFrom(line, ", ", a)
        b == IndexFrom(line, "] (relative: [", c)
    IN  <<ParseNum(SubSeq(line, a + 1, c - 1)), ParseNum(SubSeq(line, c + 1, b - 1))>>

RelativeOf(line) ==
    LET b == IndexFrom(line, "] (relative: [", 1)
        c == IndexFrom(line, ", ", b)
        e == IndexFrom(line, "])", c)
    IN  <<ParseNum(SubSeq(line, b + 1, c - 1)), ParseNum(SubSeq(line, c + 1, e - 1))>>

\* The line of the named object in a rendered text.
LineOf(text, name) ==
    LET lines == ObjectLinesOf(text) IN
    lines[CHOOSE i \in 1..Len(lines) : NameOf(lines[i]) = name]

\* C6: in the context rendered from any store, the i-th object line names
\* the i-th object, prints its position as the absolute position and prints
\* position minus user, component by component, as the relative offset.
C6_RelativeOffsetExact ==
    LET lines == ObjectLinesOf(GetSceneContext(sceneMemory)) IN
    /\ Len(lines) = Len(sceneMemory.objects)
    /\ \A i \in 1..Len(lines) :
         LET obj == sceneMemory.objects[i] IN
         /\ NameOf(lines[i]) = obj.name
         /\ AbsoluteOf(lines[i]) = obj.position
         /\ RelativeOf(lines[i]) =
              <<obj.position[1] - sceneMemory.user[1],
                obj.position[2] - sceneMemory.user[2]>>

\* The box at [-5, 12] seen from [4, 0], next to a second object: a negative
\* and a two-digit offset.
C6_Witness ==
    /\ sceneMemory.user = <<4, 0>>
    /\ Len(sceneMemory.objects) = 2
    /\ HasName(sceneMemory.objects, Str("box"))
    /\ AbsoluteOf(LineOf(GetSceneContext(sceneMemory), Str("box"))) = <<-5, 12>>
    /\ RelativeOf(LineOf(GetSceneContext(sceneMemory), Str("box"))) = <<-9, 12>>

----------------------------------------------------------------------------
(* Properties of the navigation controller *)

\* The text a step hands to the transport, or, without a session, the
\* context the store renders.
StepContext(sentNow, m) ==
    IF sentNow # <<>> THEN sentNow[1].turns[1].text ELSE GetSceneContext(m)

\* C7: in the README scenario, addObject on the empty store leaves exactly
\* the box at [3, 0]; a step to p leaves user = p, the first step logs the
\* origin as history[0].user, and the context of a step to p reports the
\* box at box.position - p: [3, -2] at [0, 2], [-1, -2] at [4, 2] and
\* [-1, 0] at [4, 0].
C7_ScenarioOffsets ==
    [][ /\ (call'.op = "addObject" /\ sceneMemory.objects = <<>>) =>
             /\ Len(sceneMemory'.objects) = 1
             /\ SameObject(sceneMemory'.objects[1], ScenarioBox)
        /\ (call'.op = "updateNavigationStep") =>
             LET p == call'.args[1] IN
             /\ sceneMemory'.user = p
             /\ (sceneMemory.history = <<>> /\ sceneMemory.user = <<0, 0>>) =>
                  sceneMemory'.history[1].user = <<0, 0>>
             /\ HasName(sceneMemory'.objects, Str("box")) =>
                  LET rel == RelativeOf(LineOf(StepContext(sent', sceneMemory'),
                                               Str("box")))
                      box == CHOOSE obj \in Range(sceneMemory'.objects) :
                               obj.name = Str("box")
                  IN  /\ rel = <<box.position[1] - p[1], box.position[2] - p[2]>>
                      /\ (p = <<0, 2>>) => rel = <<3, -2>>
                      /\ (p = <<4, 2>>) => rel = <<-1, -2>>
                      /\ (p = <<4, 0>>) => rel = <<-1, 0>> ]_vars

\* The scenario run to its end with a live session: the box was added
\* first, then the steps to [0, 2], [4, 2] and [4, 0] were taken, and the
\* last prompt reports the box at [-1, 0].
C7_Witness ==
    /\ call.op = "updateNavigationStep"
    /\ sent # <<>>
    /\ Len(sceneMemory.objects) = 1
    /\ Len(sceneMemory.history) = 3
    /\ sceneMemory.history[1].objects = sceneMemory.objects
    /\ sceneMemory.history[1].user = <<0, 0>>
    /\ sceneMemory.history[2].user = <<0, 2>>
    /\ sceneMemory.history[3].user = <<4, 2>>
    /\ sceneMemory.user = <<4, 0>>
    /\ RelativeOf(LineOf(sent[1].turns[1].text, Str("box"))) = <<-1, 0>>

\* C8: completeNavigation leaves the scene memory as it is, and
\* startNavigation leaves user, objects and history as they are.
C8_CompleteKeepsScene ==
    [][ /\ (call'.op = "completeNavigation") => sceneMemory' = sceneMemory
        /\ (call'.op = "startNavigation") =>
             /\ sceneMemory'.user = sceneMemory.user
             /\ sceneMemory'.objects = sceneMemory.objects
             /\ sceneMemory'.history = sceneMemory.history ]_vars

\* An active navigation with two objects, a moved user and a goal has just
\* been completed.
C8_Witness ==
    /\ call.op = "completeNavigation"
    /\ navigationState.active
    /\ Len(sceneMemory.objects) = 2
    /\ Len(sceneMemory.history) >= 1
    /\ sceneMemory.user # <<0, 0>>
    /\ TruthyStr(sceneMemory.goalDescription)

\* Navigation is Active from a startNavigation call until the next
\* completeNavigation call, whether or not React has rendered the update.
NavigationActive ==
    IF IsSet(pending.active) THEN pending.active[1] ELSE navigationState.active

IsAmbientPrompt(message) == message.turns = <<[text |-> AmbientQuery]>>

\* C9: while navigation is Active the interval callback hands no ambient
\* prompt to the transport.
C9_NoAmbientPromptWhileActive ==
    ~( /\ call.op = "intervalTick"
       /\ NavigationActive
       /\ \E i \in 1..Len(sent) : IsAmbientPrompt(sent[i]) )

\* C10: a disconnect() that closed a session leaves the scene memory reset:
\* user [0, 0], no objects, no goal and an empty history.
C10_SceneClearedOnDisconnect ==
    (call.op = "disconnect" /\ call.args[1]) => sceneMemory = EmptyScene


----------------------------------------------------------------------------
(* Reading the goal line and the prompt of a sent text back *)

IsGoalLine(line) == line # <<>> /\ line[1] = "Navigation Goal: "
GoalLinesOf(text) == SelectSeq(SplitLines(text), IsGoalLine)
HasGoalLine(text) == GoalLinesOf(text) # <<>>

\* The description printed on a goal line: what stands before the position.
GoalTextOf(line) ==
    LET b == IndexFrom(line, " [", 1) IN
    SubSeq(line, 2, IF b = 0 THEN Len(line) ELSE b - 1)

\* The text shows goal description g on its goal line.
ShowsGoalText(text, g) ==
    /\ Len(GoalLinesOf(text)) = 1
    /\ GoalTextOf(GoalLinesOf(text)[1]) = g

\* What follows the footer marker line in a sent text.
AfterContext(text) ==
    LET f == IndexFrom(text, "--- END SCENE MEMORY ---", 1) IN
    SubSeq(text, f + 2, Len(text))

\* What a startNavigation(g) step does besides rendering the goal: the goal
\* description is g, navigation is Active, user, objects and history are
\* kept, and with a session exactly one prompt is sent, made of the context
\* of the store as it is after the call and the first-step instruction.
StartEffect(g) ==
    /\ sceneMemory'.goalDescription = Some(g)
    /\ pending'.active = Some(TRUE)
    /\ sceneMemory'.user = sceneMemory.user
    /\ sceneMemory'.objects = sceneMemory.objects
    /\ sceneMemory'.history = sceneMemory.history
    /\ sceneMemory'.goal = sceneMemory.goal
    /\ session =>
         /\ Len(sent') = 1
         /\ Len(sent'[1].turns) = 1
         /\ sent'[1].turns[1].text =
              GetSceneContext(sceneMemory') \o FirstStepQuery(g)
         /\ AfterContext(sent'[1].turns[1].text) = FirstStepQuery(g)

\* C11 as claimed: startNavigation(g) sets goalDescription to g, activates
\* navigation, keeps user, objects and history, and sends one prompt whose
\* context already shows goal g, for every g.
C11_StartShowsGoal ==
    [][ (call'.op = "startNavigation") =>
          LET g == call'.args[1] IN
          /\ StartEffect(g)
          /\ session => ShowsGoalText(sent'[1].turns[1].text, g) ]_vars

\* C11 as amended: the same, the context showing g on its goal line when g
\* is not empty; for the empty g the context prints no description (its
\* goal line, present only with a goal position, has an empty text).
C11_StartShowsNonEmptyGoal ==
    [][ (call'.op = "startNavigation") =>
          LET g == call'.args[1] IN
          /\ StartEffect(g)
          /\ session =>
               LET text == sent'[1].turns[1].text IN
               IF g # EmptyStr THEN ShowsGoalText(text, g)
               ELSE /\ HasGoalLine(text) = IsSet(sceneMemory.goal)
                    /\ HasGoalLine(text) => ShowsGoalText(text, EmptyStr) ]_vars

\* A re-entrant start with a live session: navigation was Active with an
\* empty goal description, objects and a moved user, and the prompt shows
\* the new goal.
C11_Witness ==
    /\ call.op = "startNavigation"
    /\ call.args[1] # EmptyStr
    /\ navigationState.active
    /\ session
    /\ Len(sent) = 1
    /\ ShowsGoalText(sent[1].turns[1].text, call.args[1])
    /\ Len(sceneMemory.objects) = 2
    /\ Len(sceneMemory.history) >= 1


IsUserLine(line) == line # <<>> /\ line[1] = "User Position: ["

\* The position printed on the user position line of a text.
UserPositionOf(text) ==
    LET lines == SelectSeq(SplitLines(text), IsUserLine)
        line == lines[1]
        c == IndexFrom(line, ", ", 1)
        e == IndexFrom(line, "]", c)
    IN  <<ParseNum(SubSeq(line, 2, c - 1)), ParseNum(SubSeq(line, c + 1, e - 1))>>

\* C12: updateStep(p, a) with a live session sends exactly one prompt; its
\* context shows User Position p and every object at its position minus p,
\* is followed by the "what's next" instruction, and the history already
\* ends with the snapshot of the pre-step state.
C12_StepUpdatesBeforeSend ==
    [][ (call'.op = "updateNavigationStep" /\ session) =>
          LET p == call'.args[1] IN
          /\ Len(sent') = 1
          /\ Len(sent'[1].turns) = 1
          /\ LET text == sent'[1].turns[1].text
                 lines == ObjectLinesOf(text)
             IN  /\ UserPositionOf(text) = p
                 /\ Len(lines) = Len(sceneMemory'.objects)
                 /\ \A i \in 1..Len(lines) :
                      RelativeOf(lines[i]) =
                        <<sceneMemory'.objects[i].position[1] - p[1],
                          sceneMemory'.objects[i].position[2] - p[2]>>
                 /\ AfterContext(text) = NextStepQuery
          /\ Len(sceneMemory'.history) = Len(sceneMemory.history) + 1
          /\ Last(sceneMemory'.history).user = sceneMemory.user
          /\ Last(sceneMemory'.history).objects = sceneMemory.objects
          /\ Last(sceneMemory'.history).action = call'.args[2] ]_vars

\* A step with a live session from a position that is neither the origin
\* nor the new position, with the box recorded: the prompt shows the new
\* position.
C12_Witness ==
    /\ call.op = "updateNavigationStep"
    /\ Len(sent) = 1
    /\ Len(sceneMemory.objects) = 1
    /\ Last(sceneMemory.history).user # <<0, 0>>
    /\ Last(sceneMemory.history).user # sceneMemory.user
    /\ UserPositionOf(sent[1].turns[1].text) = call.args[1]
    /\ UserPositionOf(sent[1].turns[1].text) # Last(sceneMemory.history).user


C14_GoalKindsIndependent ==
    [][ (call'.op = "setNavigationGoal") =>
          /\ IF call'.args[1] = "string"
             THEN /\ sceneMemory'.goalDescription = Some(call'.args[2])
                  /\ sceneMemory'.goal = sceneMemory.goal
             ELSE /\ sceneMemory'.goal = Some(call'.args[2])
                  /\ sceneMemory'.goalDescription = sceneMemory.goalDescription
          /\ sceneMemory'.user = sceneMemory.user
          /\ sceneMemory'.objects = sceneMemory.objects
          /\ sceneMemory'.history = sceneMemory.history ]_vars

\* A goal text given to a store that already has a goal position, objects
\* and a history.
C14_Witness ==
    /\ call.op = "setNavigationGoal"
    /\ call.args[1] = "string"
    /\ sceneMemory.goalDescription = Some(call.args[2])
    /\ IsSet(sceneMemory.goal)
    /\ Len(sceneMemory.objects) = 2
    /\ Len(sceneMemory.history) = 2


\* The operations that change the scene store, by the name of the call.
StoreMutators ==
    {"updateUserPosition", "updateSceneObject", "setNavigationGoal",
     "resetScene", "addObject", "updateNavigationStep", "startNavigation",
     "lumaNav.resetScene"}

\* C15: an operation that changes the store has emitted exactly one
\* sceneupdate, whose payload is the store as it is after the change; any
\* other operation (completeNavigation, the interval's send, connection
\* and render steps) has emitted none.
C15_OneSceneUpdatePerMutation ==
    IF call.op \in StoreMutators
    THEN emitted = <<sceneMemory>>
    ELSE emitted = <<>>

\* An addObject call that replaced an entry of a store with a history and a
\* goal: one notification, carrying the new entry.
C15_Witness ==
    /\ call.op = "addObject"
    /\ Len(emitted) = 1
    /\ Len(emitted[1].objects) = 2
    /\ SameObject(emitted[1].objects[1], call.args[1])
    /\ Len(emitted[1].history) >= 1
    /\ emitted[1].history[1].objects # emitted[1].objects
    /\ IsSet(emitted[1].goalDescription)


\* The handlers that call client.send, by the name of the call.
SendingOps == {"intervalTick", "startNavigation", "updateNavigationStep"}

\* C16: a handler that calls send() without a session hands nothing to the
\* transport and reports "no session"; with a session an exception of
\* sendClientContent is caught and reported; in both cases no exception
\* leaves send, the connection status, the session and the interval are as
\* before, no state update is queued by the send, and the store is what the
\* handler's own store call made of it (unchanged for the interval's send).
C16_SendFailureIsReportedNoOp ==
    [][ (call'.op \in SendingOps) =>
          /\ sendReport' \in {"No session exists", "Error in sendClientContent",
                              "called successfully"}
          /\ ~session => (sent' = <<>> /\ sendReport' = "No session exists")
          /\ session => Len(sent') = 1
          /\ status' = status
          /\ session' = session
          /\ intervalSet' = intervalSet
          /\ navigationState' = navigationState
          /\ call'.op = "intervalTick" =>
               (sceneMemory' = sceneMemory /\ pending' = pending)
          /\ call'.op = "updateNavigationStep" =>
               /\ sceneMemory' = UpdateUserPosition(sceneMemory, call'.args[1],
                                                    call'.args[2], now)
               /\ pending' = pending
          /\ call'.op = "startNavigation" =>
               /\ sceneMemory' = SetNavigationGoalText(sceneMemory, call'.args[1])
               /\ pending' = [pending EXCEPT !.active = Some(TRUE)] ]_vars

\* The interval fires after disconnect() and before the render that clears
\* it: send() finds no session, on a store that is not empty.
C16_Witness ==
    /\ call.op = "intervalTick"
    /\ ~session
    /\ status = "disconnected"
    /\ sendReport = "No session exists"
    /\ sent = <<>>
    /\ intervalSet
    /\ sceneMemory # EmptyScene

\* A send whose sendClientContent threw, on a live session.
C16_CaughtReached ==
    /\ call.op = "startNavigation"
    /\ session
    /\ sendReport = "Error in sendClientContent"
    /\ Len(sent) = 1


\* C17: whatever send() reports (no session, a caught exception, success),
\* start(g) has set the goal description to g and made navigation Active,
\* and updateStep(p, a) has made p the user position and appended one
\* snapshot of the store as it was, with the action a.
C17_SendOutcomeNotFedBack ==
    [][ /\ (call'.op = "startNavigation") =>
             /\ sceneMemory'.goalDescription = Some(call'.args[1])
             /\ [sceneMemory' EXCEPT !.goalDescription = sceneMemory.goalDescription]
                  = sceneMemory
             /\ NavigationActive'
        /\ (call'.op = "updateNavigationStep") =>
             /\ sceneMemory'.user = call'.args[1]
             /\ sceneMemory'.history =
                  Append(sceneMemory.history,
                         [user |-> sceneMemory.user,
                          objects |-> sceneMemory.objects,
                          timestamp |-> now,
                          action |-> call'.args[2]])
             /\ sceneMemory'.objects = sceneMemory.objects
             /\ NavigationActive' = NavigationActive ]_vars

\* start(g) after a disconnect: nothing was sent, yet the goal is set and
\* the activation is queued.
C17_Witness ==
    /\ call.op = "startNavigation"
    /\ ~session
    /\ sendReport = "No session exists"
    /\ sent = <<>>
    /\ call.args[1] # EmptyStr
    /\ sceneMemory.goalDescription = Some(call.args[1])
    /\ pending.active = Some(TRUE)
    /\ ~navigationState.active


\* The stores that agree with m on user, objects (names, positions,
\* descriptions, order), goal and goalDescription, with any timestamps of
\* the clock on the objects and the whole, a part or none of m's history.
SameVisibleScene(m) ==
    { [m EXCEPT !.history = h,
                !.objects = [i \in 1..Len(m.objects) |->
                               [m.objects[i] EXCEPT !.timestamp = Some(stamps[i])]]] :
        h \in {<<>>, m.history} \cup {Tail(k) : k \in {m.history} \ {<<>>}},
        stamps \in [1..Len(m.objects) -> Times] }

\* C18: every store with the same user, objects in the same order, goal and
\* goalDescription as the current one renders the same text, whatever its
\* history and its object timestamps.
C18_ContextIgnoresHistoryAndStamps ==
    \A other \in SameVisibleScene(sceneMemory) :
        GetSceneContext(other) = GetSceneContext(sceneMemory)

\* A store with two objects stamped at different times, a logged step and a
\* goal, which has a twin with other stamps and no history.
C18_Witness ==
    /\ Len(sceneMemory.objects) = 2
    /\ sceneMemory.objects[1].timestamp # sceneMemory.objects[2].timestamp
    /\ Len(sceneMemory.history) >= 1
    /\ IsSet(sceneMemory.goal)
    /\ \E other \in SameVisibleScene(sceneMemory) :
         /\ other.history = <<>>
         /\ other.objects[1].timestamp # sceneMemory.objects[1].timestamp
         /\ GetSceneContext(other) = GetSceneContext(sceneMemory)


Header == <<"--- SCENE MEMORY ---">>
Footer == <<"--- END SCENE MEMORY ---">>
Placeholder == <<"No objects detected yet.">>

\* The description printed on an object line: what follows " - " after the
\* relative offset, nothing when the line ends at the offset.
DescriptionOf(line) ==
    LET e == IndexFrom(line, "])", 1) IN
    IF e < Len(line) /\ line[e + 1] = " - "
    THEN Some(SubSeq(line, e + 2, Len(line)))
    ELSE None

Count(lines, line) == Cardinality({i \in 1..Len(lines) : lines[i] = line})

GoalPositionOf(line) ==
    LET b == IndexFrom(line, " [", 1) IN
    IF b = 0 THEN None
    ELSE LET c == IndexFrom(line, ", ", b)
             e == IndexFrom(line, "]", c)
         IN  Some(<<ParseNum(SubSeq(line, b + 1, c - 1)),
                    ParseNum(SubSeq(line, c + 1, e - 1))>>)

\* What the goal line of the rendered store shows: the description text
\* (empty when none is printed) and the position, if printed.
GoalLineShows(description, position) ==
    LET goalLines == GoalLinesOf(GetSceneContext(sceneMemory)) IN
    /\ GoalTextOf(goalLines[1]) = description
    /\ GoalPositionOf(goalLines[1]) = position

\* C20 as stated: the context has one goal line exactly when goal or
\* goalDescription is set in the store, an empty description included, and
\* the line shows the description and the position that are set.
C20_GoalLineWhenSet ==
    LET goalLines == GoalLinesOf(GetSceneContext(sceneMemory)) IN
    /\ Len(goalLines) =
         IF IsSet(sceneMemory.goal) \/ IsSet(sceneMemory.goalDescription)
         THEN 1 ELSE 0
    /\ Len(goalLines) = 1 =>
         GoalLineShows(IF IsSet(sceneMemory.goalDescription)
                       THEN sceneMemory.goalDescription[1] ELSE EmptyStr,
                       sceneMemory.goal)

\* C20: the context has one goal line exactly when a goal position is set
\* or a goal description with text in it is set (an empty description alone
\* gives no line), and none otherwise; the line shows the description when
\* it has text and the position when it is set, both when both are.
C20_GoalLineWhenNonEmpty ==
    LET goalLines == GoalLinesOf(GetSceneContext(sceneMemory)) IN
    /\ Len(goalLines) =
         IF IsSet(sceneMemory.goal) \/ TruthyStr(sceneMemory.goalDescription)
         THEN 1 ELSE 0
    /\ Len(goalLines) = 1 =>
         GoalLineShows(IF TruthyStr(sceneMemory.goalDescription)
                       THEN sceneMemory.goalDescription[1] ELSE EmptyStr,
                       sceneMemory.goal)

\* start(g) with a text g on a store whose goal position was set before:
\* the goal line shows both.
C20_Witness ==
    /\ call.op = "startNavigation"
    /\ TruthyStr(sceneMemory.goalDescription)
    /\ IsSet(sceneMemory.goal)
    /\ Len(sceneMemory.objects) >= 1
    /\ GoalLineShows(sceneMemory.goalDescription[1], sceneMemory.goal)
    /\ GoalPositionOf(GoalLinesOf(GetSceneContext(sceneMemory))[1]) = Some(<<6, 0>>)


\* The names on the object lines of the context rendered from a store, in
\* line order.
RenderedNames(m) ==
    LET lines == ObjectLinesOf(GetSceneContext(m)) IN
    [i \in 1..Len(lines) |-> NameOf(lines[i])]

\* C21: an operation other than a reset leaves the names on the object
\* lines in the order they had, a first insertion of a name adding it at the
\* end: updating an existing object, moving the user and setting a goal
\* change neither the order nor the set of the lines' names.
C21_InsertionOrderStable ==
    [][ (call'.op # "resetScene") =>
          LET before == RenderedNames(sceneMemory)
              after == RenderedNames(sceneMemory')
          IN  IF /\ call'.op = "updateSceneObject"
                 /\ ~HasName(sceneMemory.objects, call'.args[1].name)
              THEN after = Append(before, call'.args[1].name)
              ELSE after = before ]_vars

\* The first inserted object was updated after the second was inserted and
\* after the user moved: it is still rendered first.
C21_Witness ==
    /\ call.op = "updateSceneObject"
    /\ Len(sceneMemory.objects) = 2
    /\ call.args[1].name = sceneMemory.objects[1].name
    /\ sceneMemory.objects[1].timestamp = Some(2)
    /\ sceneMemory.objects[2].timestamp = Some(1)
    /\ sceneMemory.user # <<0, 0>>
    /\ RenderedNames(sceneMemory) = <<Str("box"), Str("chair")>>


\* The scene-memory block is in a text: its header and footer markers are.
CarriesContext(text) ==
    /\ IndexFrom(text, "--- SCENE MEMORY ---", 1) # 0
    /\ IndexFrom(text, "--- END SCENE MEMORY ---", 1) # 0

\* C22: with a session, send(parts, _, TRUE) hands over each text part t as
\* the context followed by t and each other part as given, in the order
\* given (after the part it adds when there is no text part), and
\* send(parts, _, FALSE) hands over parts exactly as given.
C22_ContextPrependedNeverReplaces ==
    [][ (call'.op = "send" /\ session) =>
          LET parts == call'.args[1]
              turns == sent'[1].turns
              context == GetSceneContext(sceneMemory)
              added == Len(turns) - Len(parts)
          IN  /\ Len(sent') = 1
              /\ sent'[1].turnComplete = call'.args[2]
              /\ IF call'.args[3]
                 THEN /\ added \in {0, 1}
                      /\ \A i \in 1..Len(parts) :
                           turns[i + added] =
                             IF IsTextPart(parts[i])
                             THEN TextPart(context \o parts[i].text)
                             ELSE parts[i]
                 ELSE turns = parts ]_vars

\* C29: with a session, what send(parts, _, TRUE) hands to the transport
\* has a text part that carries the scene context of the store.
C29_ContextAlwaysIncluded ==
    (call.op = "send" /\ session /\ call.args[3]) =>
        /\ Len(sent) = 1
        /\ \E i \in 1..Len(sent[1].turns) :
             /\ IsTextPart(sent[1].turns[i])
             /\ CarriesContext(sent[1].turns[i].text)


\* A message handed to the transport has the scene-memory block in one of
\* its text parts.
MessageCarriesContext(message) ==
    \E j \in 1..Len(message.turns) :
        /\ IsTextPart(message.turns[j])
        /\ CarriesContext(message.turns[j].text)

\* C23: every prompt handed to the transport with the scene-memory block
\* in it is sent while navigation is Active, and an ambient prompt never
\* carries the block.
C23_ContextOnlyWhileActive ==
    \A i \in 1..Len(sent) :
        /\ MessageCarriesContext(sent[i]) => NavigationActive
        /\ IsAmbientPrompt(sent[i]) => ~MessageCarriesContext(sent[i])


\* C24: an operation other than a reset keeps every history entry it found,
\* unchanged and at its index, and adds at most one entry at the end.
C24_HistoryAppendOnly ==
    [][ (call'.op \notin {"resetScene", "lumaNav.resetScene"}) =>
          /\ Len(sceneMemory'.history) \in
               {Len(sceneMemory.history), Len(sceneMemory.history) + 1}
          /\ SubSeq(sceneMemory'.history, 1, Len(sceneMemory.history))
               = sceneMemory.history ]_vars

\* updateSceneObject has replaced the entry of a name that a logged
\* snapshot holds: the snapshot still has the entry as it was when the step
\* was taken, with its old position, description and timestamp.
C24_Witness ==
    /\ call.op = "updateSceneObject"
    /\ Len(sceneMemory.history) >= 1
    /\ Len(sceneMemory.objects) >= 1
    /\ SameObject(sceneMemory.objects[1], call.args[1])
    /\ sceneMemory.objects[1].timestamp = Some(2)
    /\ Len(sceneMemory.history[1].objects) >= 1
    /\ sceneMemory.history[1].objects[1].name = sceneMemory.objects[1].name
    /\ sceneMemory.history[1].objects[1].position # sceneMemory.objects[1].position
    /\ sceneMemory.history[1].objects[1].timestamp = Some(1)
    /\ IsSet(sceneMemory.goalDescription)


\* C25: sendRealtimeInput(chunks) hands every chunk to the session, in the
\* order given, when the status is connected, and none otherwise.
C25_EveryChunkForwarded ==
    (call.op = "sendRealtimeInput") =>
        LET chunks == call.args[1] IN
        realtime = IF status = "connected"
                   THEN [i \in 1..Len(chunks) |-> [media |-> chunks[i]]]
                   ELSE <<>>


EventNames(evs) == [i \in 1..Len(evs) |-> evs[i].event]

HasAudioData(part) == IsAudioPart(part) /\ part.inlineData.data # EmptyStr

StatusMatchesSession ==
    /\ (status = "connected") <=> session
    /\ (call.op = "connectSettled" /\ ~call.args[1]) =>
         (status = "disconnected" /\ ~session)

\* C27: in every state the status is "connected" exactly when there is a
\* session; a connect that failed has left the status "disconnected" and no
\* session; and a callback of the transport (onopen, onerror, onclose)
\* leaves status and session as they were.
C27_ConnectedIffSession ==
    /\ []StatusMatchesSession
    /\ [][ (call'.op \in {"onopen", "onerror", "onclose"}) =>
             (status' = status /\ session' = session) ]_vars

\* The server closes the connection of a live session: the client still
\* has the session and the status connected.
C27_Witness ==
    /\ call.op = "onclose"
    /\ events = <<Event("close", <<>>)>>
    /\ status = "connected"
    /\ session

\* A second attempt, made after a failed one, has failed as well.
C27_FailedConnectReached ==
    /\ call.op = "connectSettled"
    /\ ~call.args[1]
    /\ returned = Some(FALSE)
    /\ status = "disconnected"
    /\ model = Some("models/gemini-live-native")


\* C28: connect() called while the status is "connecting" or "connected"
\* returns false and leaves status, session, model and config as they
\* were; disconnect() called while a connect is pending returns false and
\* changes nothing; and a pending connect that succeeds ends with the
\* status "connected" and a session, whatever was called meanwhile.
C28_OneAttemptOneSession ==
    [][ /\ (call'.op = "connect" /\ status \in {"connecting", "connected"}) =>
             /\ returned' = Some(FALSE)
             /\ UNCHANGED <<status, session, model, config, pending>>
        /\ (call'.op = "disconnect" /\ status = "connecting") =>
             /\ returned' = Some(FALSE)
             /\ UNCHANGED <<status, session, model, config, pending,
                            sceneMemory>>
        /\ (call'.op = "connectSettled") =>
             /\ status = "connecting" /\ ~session
             /\ call'.args[1] =>
                  (status' = "connected" /\ session' /\ returned' = Some(TRUE))
      ]_vars

\* disconnect() called during the second attempt, which is still pending.
C28_Witness ==
    /\ call.op = "disconnect"
    /\ returned = Some(FALSE)
    /\ status = "connecting"
    /\ ~session
    /\ model = Some("models/gemini-live-native")

\* connect() refused during a live session opened with the other model.
C28_RefusedReached ==
    /\ call.op = "connect"
    /\ returned = Some(FALSE)
    /\ status = "connected"
    /\ call.args[2] # model[1]


\* The interval callback has just handed an ambient prompt without scene
\* context to the transport.
AmbientSent ==
    /\ call.op = "intervalTick"
    /\ Len(sent) = 1
    /\ IsAmbientPrompt(sent[1])
    /\ ~MessageCarriesContext(sent[1])

====
